---- MODULE Spec2Model ----
(***************************************************************************)
(* Semi-synchronous single-leader key/value store (src/app.py).            *)
(*                                                                         *)
(* One leader node and its followers.  A write on the leader commits to    *)
(* the local storage, makes one synchronous replicate attempt to           *)
(* SYNC_FOLLOWERS[0], then (depending on WRITE_QUORUM) fans out to         *)
(* ASYNC_FOLLOWERS and counts confirmations in completion order.           *)
(* Every suspension point of the asyncio code (an await that can yield to  *)
(* the event loop) is the boundary between two actions of this model; the  *)
(* code between two suspension points is one atomic action.                *)
(***************************************************************************)
EXTENDS Integers, Sequences, FiniteSets, TLC

(* ---------------------------------------------------------------- bounds *)
\* number of /write requests the clients send in one behaviour
MaxWrites == 2
\* largest WRITE_QUORUM the environment configures
MaxQuorum == 3

(* ------------------------------------------------------ nodes and values *)
Leader == "leader"
Followers == {"f1", "f2", "f3"}
Nodes == {Leader} \cup Followers

Keys == {"x", "y"}
Writes == 1..MaxWrites
\* the load harness gives every write its own value (v = f"val-{i}-{time.time()}")
value_of(w) == ToString(w)
Values == { value_of(w) : w \in Writes }
\* storage.get(key) of an absent key
None == "None"

\* IS_LEADER of the process running on node n
IS_LEADER(n) == n = Leader

\* the tier configurations the environment may set (SYNC_FOLLOWERS, ASYNC_FOLLOWERS)
TierConfigs ==
    { <<  <<>>,           <<>>           >>,
      <<  <<"f1">>,       <<>>           >>,
      <<  <<"f1">>,       <<"f2", "f3">> >>,
      <<  <<"f1", "f2">>, <<"f3">>       >> }

\* slot 0 is the synchronous attempt; slot i >= 1 is the attempt to ASYNC_FOLLOWERS[i]
SyncSlot == 0
AllSlots == {SyncSlot} \cup UNION { DOMAIN c[2] : c \in TierConfigs }

\* what the network and the peer can do to one POST /replicate
\*   response               the peer's handler ran and its response arrived in time
\*   http_error             a response with a non-200 status arrived, the handler did not run
\*   timeout                the attempt timed out before the request reached the handler
\*   timeout_after_delivery the handler ran, the response did not arrive in time
\*   connect_error          the connection could not be established
PeerOutcomes == {"response", "http_error", "timeout", "timeout_after_delivery",
                 "connect_error"}

VARIABLES
    WRITE_QUORUM,           \* int(os.getenv('WRITE_QUORUM'))
    SYNC_FOLLOWERS,         \* ordered list of peer addresses
    ASYNC_FOLLOWERS,        \* list of peer addresses
    storage,                \* storage[n][k]: the dict of the process on node n
    request,                \* request[w]: the WriteRequest and the node that received it
    pc,                     \* pc[w]: where the handler of write w is suspended
    tasks,                  \* tasks[w][slot]: state of each replicate_to_follower task
    queue,                  \* queue[w]: completed tasks as_completed has not yielded yet
    sync_success,           \* local of replicate_semi_sync
    confirmations,          \* local of replicate_semi_sync
    response,               \* response[w]: what the client of write w received
    intake_response         \* status code of the last POST /replicate sent by a client

vars == << WRITE_QUORUM, SYNC_FOLLOWERS, ASYNC_FOLLOWERS, storage, request, pc,
           tasks, queue, sync_success, confirmations, response, intake_response >>

config == << WRITE_QUORUM, SYNC_FOLLOWERS, ASYNC_FOLLOWERS >>

AsyncSlots == 1..Len(ASYNC_FOLLOWERS)
Slots == {SyncSlot} \cup AsyncSlots

NoRequest == [node |-> None, key |-> None, value |-> None]
NoResponse == [status |-> "none", failed_sync_followers |-> <<>>, warning |-> FALSE]

Init ==
    /\ WRITE_QUORUM \in 1..MaxQuorum
    /\ \E c \in TierConfigs :
          /\ SYNC_FOLLOWERS = c[1]
          /\ ASYNC_FOLLOWERS = c[2]
    /\ storage = [n \in Nodes |-> [k \in Keys |-> None]]
    /\ request = [w \in Writes |-> NoRequest]
    /\ pc = [w \in Writes |-> "new"]
    /\ tasks = [w \in Writes |-> [s \in AllSlots |-> "none"]]
    /\ queue = [w \in Writes |-> <<>>]
    /\ sync_success = [w \in Writes |-> FALSE]
    /\ confirmations = [w \in Writes |-> 0]
    /\ response = [w \in Writes |-> NoResponse]
    /\ intake_response = 0

(* ------------------------------------------------------------------ Store *)
\* mutant: the assignment under the lock is lost
Commit_lost(st, n, k, v) == st

\* storage[key] = value under storage_lock.  The lock is never held across a
\* suspension point, so acquiring it never suspends and the update is atomic.
Commit(st, n, k, v) == [st EXCEPT ![n][k] = v]

\* GET /read on node n: the value, or "404" when storage.get(key) is None
read(n, k) ==
    IF storage[n][k] = None THEN [status |-> "404", value |-> None]
                            ELSE [status |-> "200", value |-> storage[n][k]]

(* -------------------------------------------------------- Follower intake *)
\* mutant: the role check is missing
replicate_no_role_check(st, n, k, v) ==
    [status_code |-> 200, storage |-> Commit(st, n, k, v)]

\* mutant: a key that is already present is not overwritten
replicate_if_absent(st, n, k, v) ==
    IF IS_LEADER(n)
    THEN [status_code |-> 403, storage |-> st]
    ELSE [status_code |-> 200,
          storage |-> IF st[n][k] = None THEN Commit(st, n, k, v) ELSE st]

\* mutant: a repeated identical pair is taken for a conflict and the key dropped
replicate_drop_repeated(st, n, k, v) ==
    IF IS_LEADER(n)
    THEN [status_code |-> 403, storage |-> st]
    ELSE [status_code |-> 200,
          storage |-> IF st[n][k] = v THEN Commit(st, n, k, None)
                                      ELSE Commit(st, n, k, v)]

\* POST /replicate handled by node n: its status code and the storage it leaves
replicate(st, n, k, v) ==
    IF IS_LEADER(n)
    THEN [status_code |-> 403, storage |-> st]
    ELSE [status_code |-> 200, storage |-> Commit(st, n, k, v)]

(* -------------------------------------------------------- Peer Replicator *)
\* mutant: a timeout is not caught and leaves the coroutine as an exception
replicate_to_follower_raises(st, follower_url, k, v, outcome) ==
    LET handled == replicate(st, follower_url, k, v) IN
    CASE outcome = "response" ->
            [result  |-> IF handled.status_code = 200 THEN "true" ELSE "false",
             storage |-> handled.storage]
      [] outcome = "http_error" ->
            [result |-> "false", storage |-> st]
      [] outcome = "timeout_after_delivery" ->
            [result |-> "raised", storage |-> handled.storage]
      [] outcome = "timeout" ->
            [result |-> "raised", storage |-> st]
      [] OTHER ->
            [result |-> "false", storage |-> st]

\* One attempt: the result of the task ("true", "false", or "raised" when an
\* exception leaves the coroutine) and the storage after it.
replicate_to_follower(st, follower_url, k, v, outcome) ==
    LET handled == replicate(st, follower_url, k, v) IN
    CASE outcome = "response" ->
            [result  |-> IF handled.status_code = 200 THEN "true" ELSE "false",
             storage |-> handled.storage]
      [] outcome = "http_error" ->
            [result |-> "false", storage |-> st]
      [] outcome = "timeout_after_delivery" ->
            [result |-> "false", storage |-> handled.storage]
      [] OTHER ->
            [result |-> "false", storage |-> st]

(* ----------------------------------------------------- Quorum Coordinator *)
\* mutant: the failed synchronous peers are never recorded
FailedSyncFollowers_never(ok) == <<>>

\* if not sync_success: failed_sync_followers = SYNC_FOLLOWERS.copy()
FailedSyncFollowers(ok) == IF ~ok THEN SYNC_FOLLOWERS ELSE <<>>

\* mutant: the early return is missing
SkipAsyncTier_never(ok) == FALSE

\* if sync_success and WRITE_QUORUM == 1: return True, ...
SkipAsyncTier(ok) == ok /\ WRITE_QUORUM = 1

\* mutant: the loop counts up to WRITE_QUORUM async confirmations
QuorumReached_late(c) == c >= WRITE_QUORUM

\* if confirmations >= WRITE_QUORUM - 1: break
QuorumReached(c) == c >= WRITE_QUORUM - 1

\* mutant: off by one in the final comparison
QuorumUnmet_le(c) == c <= WRITE_QUORUM - 1

\* if confirmations < WRITE_QUORUM - 1: return False, ...
QuorumUnmet(c) == c < WRITE_QUORUM - 1

\* mutant: both tiers are launched at once
sync_tasks_all(w) == [s \in AllSlots |-> IF s \in Slots THEN "pending" ELSE tasks[w][s]]

\* sync_tasks = [replicate_to_follower(SYNC_FOLLOWERS[0], key, value, is_sync=True)]
sync_tasks(w) == [tasks[w] EXCEPT ![SyncSlot] = "pending"]

\* async_tasks = [replicate_to_follower(follower, ...) for follower in ASYNC_FOLLOWERS]
async_tasks(w) ==
    [s \in AllSlots |-> IF s \in AsyncSlots THEN "pending" ELSE tasks[w][s]]

\* mutant: the synchronous attempt goes to the last member of the sync tier
PeerOf_last(s) ==
    IF s = SyncSlot THEN SYNC_FOLLOWERS[Len(SYNC_FOLLOWERS)] ELSE ASYNC_FOLLOWERS[s]

PeerOf(s) == IF s = SyncSlot THEN SYNC_FOLLOWERS[1] ELSE ASYNC_FOLLOWERS[s]

(* -------------------------------------------------------------- Write Path *)
\* mutant: the role check is missing
RoleMismatch_never(n) == FALSE

\* if not IS_LEADER: raise HTTPException(403)
RoleMismatch(n) == ~IS_LEADER(n)

\* mutant: the failure path undoes the local commit
Return_rollback(w, success, failed) ==
    /\ response' = [response EXCEPT ![w] =
          IF success
          THEN [status |-> "success", failed_sync_followers |-> failed,
                warning |-> failed # <<>>]
          ELSE [status |-> "quorum_unmet", failed_sync_followers |-> failed,
                warning |-> FALSE]]
    /\ pc' = [pc EXCEPT ![w] = "done"]
    /\ storage' = IF success THEN storage
                  ELSE [storage EXCEPT ![request[w].node][request[w].key] = None]

\* The end of write(): the response built from (success, failed_sync_followers).
\* No statement of this path touches storage.
Return(w, success, failed) ==
    /\ response' = [response EXCEPT ![w] =
          IF success
          THEN [status |-> "success", failed_sync_followers |-> failed,
                warning |-> failed # <<>>]
          ELSE [status |-> "quorum_unmet", failed_sync_followers |-> failed,
                warning |-> FALSE]]
    /\ pc' = [pc EXCEPT ![w] = "done"]
    /\ UNCHANGED storage

\* POST /write received by node n, up to the first suspension point: the role
\* check, the local commit, and the creation of the synchronous task
\* (SYNC_FOLLOWERS[0] raises IndexError on an empty list: the framework answers 500).
write(w, n, k, v) ==
    /\ pc[w] = "new"
    /\ v = value_of(w)
    /\ \A u \in Writes : u < w => pc[u] # "new"
    /\ request' = [request EXCEPT ![w] = [node |-> n, key |-> k, value |-> v]]
    /\ IF RoleMismatch(n)
       THEN /\ response' = [response EXCEPT ![w] =
                  [status |-> "role_mismatch", failed_sync_followers |-> <<>>,
                   warning |-> FALSE]]
            /\ pc' = [pc EXCEPT ![w] = "done"]
            /\ UNCHANGED << storage, tasks >>
       ELSE /\ storage' = Commit(storage, n, k, v)
            /\ IF SYNC_FOLLOWERS = <<>>
               THEN /\ response' = [response EXCEPT ![w] =
                          [status |-> "internal_error", failed_sync_followers |-> <<>>,
                           warning |-> FALSE]]
                    /\ pc' = [pc EXCEPT ![w] = "done"]
                    /\ UNCHANGED tasks
               ELSE /\ tasks' = [tasks EXCEPT ![w] = sync_tasks(w)]
                    /\ pc' = [pc EXCEPT ![w] = "sync"]
                    /\ UNCHANGED response
    /\ UNCHANGED << config, queue, sync_success, confirmations, intake_response >>

\* mutant: the tasks of a write are cancelled when its handler returns
Attempt_cancelled(w, s, outcome) ==
    /\ tasks[w][s] = "pending"
    /\ pc[w] # "done"
    /\ LET r == replicate_to_follower(storage, PeerOf(s), request[w].key,
                                      request[w].value, outcome)
           awaited == \/ s = SyncSlot /\ pc[w] = "sync"
                      \/ s # SyncSlot /\ pc[w] = "async"
       IN /\ storage' = r.storage
          /\ tasks' = [tasks EXCEPT ![w][s] = r.result]
          /\ queue' = [queue EXCEPT ![w] = IF awaited THEN Append(@, s) ELSE @]
    /\ UNCHANGED << config, request, pc, sync_success, confirmations, response,
                    intake_response >>

\* mutant: a failed attempt is started again
Attempt_retry(w, s, outcome) ==
    /\ tasks[w][s] \in {"pending", "false"}
    /\ LET r == replicate_to_follower(storage, PeerOf(s), request[w].key,
                                      request[w].value, outcome)
           awaited == \/ s = SyncSlot /\ pc[w] = "sync"
                      \/ s # SyncSlot /\ pc[w] = "async"
       IN /\ storage' = r.storage
          /\ tasks' = [tasks EXCEPT ![w][s] = r.result]
          /\ queue' = [queue EXCEPT ![w] =
                IF awaited /\ tasks[w][s] = "pending" THEN Append(@, s) ELSE @]
    /\ UNCHANGED << config, request, pc, sync_success, confirmations, response,
                    intake_response >>

\* One replicate_to_follower task of write w runs from its sleep to its return.
Attempt(w, s, outcome) ==
    /\ tasks[w][s] = "pending"
    /\ LET r == replicate_to_follower(storage, PeerOf(s), request[w].key,
                                      request[w].value, outcome)
           awaited == \/ s = SyncSlot /\ pc[w] = "sync"
                      \/ s # SyncSlot /\ pc[w] = "async"
       IN /\ storage' = r.storage
          /\ tasks' = [tasks EXCEPT ![w][s] = r.result]
          /\ queue' = [queue EXCEPT ![w] = IF awaited THEN Append(@, s) ELSE @]
    /\ UNCHANGED << config, request, pc, sync_success, confirmations, response,
                    intake_response >>

\* The coordinator resumes with the synchronous task's result (lines 72-92).
sync_completed(w) ==
    /\ pc[w] = "sync"
    /\ queue[w] # <<>>
    /\ LET ok == tasks[w][Head(queue[w])] = "true"
           failed == FailedSyncFollowers(ok)
       IN /\ sync_success' = [sync_success EXCEPT ![w] = ok]
          /\ queue' = [queue EXCEPT ![w] = <<>>]
          /\ IF SkipAsyncTier(ok)
             THEN Return(w, TRUE, failed) /\ UNCHANGED tasks
             ELSE IF ASYNC_FOLLOWERS # <<>>
             THEN /\ tasks' = [tasks EXCEPT ![w] = async_tasks(w)]
                  /\ pc' = [pc EXCEPT ![w] = "async"]
                  /\ UNCHANGED << response, storage >>
             ELSE Return(w, TRUE, failed) /\ UNCHANGED tasks
    /\ UNCHANGED << config, request, confirmations, intake_response >>

\* The coordinator resumes with the next completed async task (lines 95-107).
async_completed(w) ==
    /\ pc[w] = "async"
    /\ queue[w] # <<>>
    /\ LET confirmed == tasks[w][Head(queue[w])] = "true"
           c == IF confirmed THEN confirmations[w] + 1 ELSE confirmations[w]
           stop == confirmed /\ QuorumReached(c)
           exhausted == /\ Tail(queue[w]) = <<>>
                        /\ \A s \in AsyncSlots : tasks[w][s] # "pending"
       IN /\ confirmations' = [confirmations EXCEPT ![w] = c]
          /\ queue' = [queue EXCEPT ![w] = IF stop THEN <<>> ELSE Tail(@)]
          /\ IF stop \/ exhausted
             THEN Return(w, ~QuorumUnmet(c), FailedSyncFollowers(sync_success[w]))
             ELSE UNCHANGED << pc, response, storage >>
    /\ UNCHANGED << config, request, tasks, sync_success, intake_response >>

Next ==
    \/ \E w \in Writes, n \in Nodes, k \in Keys, v \in Values : write(w, n, k, v)
    \/ \E w \in Writes, s \in Slots, o \in PeerOutcomes : Attempt(w, s, o)
    \/ \E w \in Writes : sync_completed(w)
    \/ \E w \in Writes : async_completed(w)

Spec == Init /\ [][Next]_vars

\* The event loop runs every ready callback, and every attempt ends: its sleep
\* is finite and its POST is bounded by the client timeout.
Fairness ==
    /\ \A w \in Writes : WF_vars(sync_completed(w)) /\ WF_vars(async_completed(w))
    /\ \A w \in Writes, s \in AllSlots :
          WF_vars(\E o \in PeerOutcomes : Attempt(w, s, o))

FairSpec == Spec /\ Fairness

(* ------------------------------------------- the intake called on its own *)
\* POST /replicate sent to node n by any client: the whole handler.
replicate_request(n, k, v) ==
    /\ LET handled == replicate(storage, n, k, v)
       IN /\ storage' = handled.storage
          /\ intake_response' = handled.status_code
    /\ UNCHANGED << config, request, pc, tasks, queue, sync_success, confirmations,
                    response >>

\* Every content of the stores: a leader gets any of them by writes, a follower
\* by replicated writes.  The intake reads no configuration, so it is fixed here.
IntakeInit ==
    /\ WRITE_QUORUM = 1
    /\ SYNC_FOLLOWERS = <<"f1">>
    /\ ASYNC_FOLLOWERS = <<"f2", "f3">>
    /\ storage \in [Nodes -> [Keys -> Values \cup {None}]]
    /\ request = [w \in Writes |-> NoRequest]
    /\ pc = [w \in Writes |-> "new"]
    /\ tasks = [w \in Writes |-> [s \in AllSlots |-> "none"]]
    /\ queue = [w \in Writes |-> <<>>]
    /\ sync_success = [w \in Writes |-> FALSE]
    /\ confirmations = [w \in Writes |-> 0]
    /\ response = [w \in Writes |-> NoResponse]
    /\ intake_response = 0

IntakeNext == \E n \in Nodes, k \in Keys, v \in Values : replicate_request(n, k, v)

IntakeSpec == IntakeInit /\ [][IntakeNext]_vars

(* ================================================================= claims *)
\* write w was received by the leader and has passed its local commit
Committed(w) == pc[w] # "new" /\ request[w].node = Leader

\* no write to the key of w was committed on the leader after w
NoLaterWrite(w) ==
    ~ \E u \in Writes : u > w /\ Committed(u) /\ request[u].key = request[w].key

\* the async attempts of write w that returned true
AsyncConfirmed(w) == { s \in AsyncSlots : tasks[w][s] = "true" }

\* the follower acknowledgments the coordinator obtained for write w
Acks(w) == (IF sync_success[w] THEN 1 ELSE 0) + confirmations[w]

\* the synchronous attempt of write w has completed without an acknowledgment
SyncAttemptFailed(w) == tasks[w][SyncSlot] \in {"false", "raised"}

\* the step in which the client of write w receives the response with this status
Responds(w, status) ==
    response[w].status = "none" /\ response'[w].status = status

\* C1: if the synchronous attempt of a write fails, the write ends in failure
\* (quorum-unmet) whatever the async peers answer, for every quorum target.
C1_SyncFailureFailsWrite ==
    \A w \in Writes :
        pc[w] = "done" /\ SyncAttemptFailed(w) => response[w].status = "quorum_unmet"

\* C2: a write is reported as success only if the acknowledgments obtained for it
\* (the synchronous one plus the async confirmations counted) reach WRITE_QUORUM.
C2_SuccessOnlyWithQuorum ==
    \A w \in Writes :
        response[w].status = "success" => Acks(w) >= WRITE_QUORUM

\* C3: with WRITE_QUORUM = 1, once the synchronous attempt has succeeded the write
\* succeeds and no attempt to any async peer is ever launched for it.
C3_SyncAloneSkipsAsyncTier ==
    \A w \in Writes :
        WRITE_QUORUM = 1 /\ tasks[w][SyncSlot] = "true" =>
            /\ pc[w] \in {"sync", "done"}
            /\ pc[w] = "done" => response[w].status = "success"
            /\ \A s \in AsyncSlots : tasks[w][s] = "none"

C3_Witness ==
    \E w \in Writes :
        /\ WRITE_QUORUM = 1 /\ tasks[w][SyncSlot] = "true"
        /\ ASYNC_FOLLOWERS # <<>>
        /\ response[w].status = "success"

\* C4: with WRITE_QUORUM > 1 and a successful synchronous attempt, the write
\* succeeds as soon as the coordinator has counted WRITE_QUORUM - 1 async
\* confirmations: it never keeps waiting with that many counted, a success
\* carries exactly that many, and WRITE_QUORUM - 1 confirming peers imply success.
C4_SuccessAtQuorumWithoutWaiting ==
    \A w \in Writes :
        sync_success[w] /\ WRITE_QUORUM > 1 =>
            /\ pc[w] = "async" => confirmations[w] < WRITE_QUORUM - 1
            /\ pc[w] = "done" /\ ASYNC_FOLLOWERS # <<>> /\ response[w].status = "success"
                  => confirmations[w] = WRITE_QUORUM - 1
            /\ pc[w] = "done" /\ Cardinality(AsyncConfirmed(w)) >= WRITE_QUORUM - 1
                  => response[w].status = "success"

C4_Witness ==
    \E w \in Writes :
        /\ sync_success[w] /\ WRITE_QUORUM > 1
        /\ response[w].status = "success"
        /\ confirmations[w] = WRITE_QUORUM - 1
        /\ \E s \in AsyncSlots : tasks[w][s] = "pending"
        /\ \E s \in AsyncSlots : tasks[w][s] = "true"

\* C5: after a successful synchronous attempt, a failure verdict is issued only
\* when every async attempt of the write has completed and fewer than
\* WRITE_QUORUM - 1 of them confirmed; a failed attempt raises nothing, it only
\* leaves the counter where it was.
C5_FailureOnlyAfterAllAsyncCompleted ==
    \A w \in Writes :
        /\ sync_success[w] /\ response[w].status = "quorum_unmet" =>
              /\ WRITE_QUORUM > 1 /\ ASYNC_FOLLOWERS # <<>>
              /\ \A s \in AsyncSlots : tasks[w][s] \in {"true", "false"}
              /\ Cardinality(AsyncConfirmed(w)) < WRITE_QUORUM - 1
              /\ confirmations[w] = Cardinality(AsyncConfirmed(w))
        /\ confirmations[w] <= Cardinality(AsyncConfirmed(w))
        /\ \A s \in AsyncSlots : tasks[w][s] # "raised"

C5_Witness ==
    \E w \in Writes :
        /\ sync_success[w] /\ response[w].status = "quorum_unmet"
        /\ \A s \in AsyncSlots : tasks[w][s] = "false"

\* C6 (as claimed): in the step in which a write of (k, v) returns success, a read
\* of k on the leader returns v, whatever other writes are in flight.
C6_ReadAfterSuccessReturnsValue ==
    [][ \A w \in Writes :
            Responds(w, "success") =>
                read(Leader, request[w].key)' =
                    [status |-> "200", value |-> request[w].value] ]_vars

\* C6 (amended): in the step in which a write of (k, v) returns success, a read of
\* k on the leader returns v provided no other write to k was committed on the
\* leader after this write's own commit.
C6_ReadAfterSuccessUnlessOverwritten ==
    [][ \A w \in Writes :
            Responds(w, "success") /\ NoLaterWrite(w) =>
                read(Leader, request[w].key)' =
                    [status |-> "200", value |-> request[w].value] ]_vars

C6_Witness ==
    \E w, u \in Writes :
        /\ u < w /\ Committed(u) /\ pc[u] # "done"
        /\ request[u].key = request[w].key
        /\ response[w].status = "success" /\ NoLaterWrite(w)
        /\ read(Leader, request[w].key).value = request[w].value

\* C7: the step that answers quorum-unmet changes no storage, and with no later
\* write to the key the leader still reads the value of the failed write.
C7_FailureKeepsLocalCommit ==
    [][ \A w \in Writes :
            Responds(w, "quorum_unmet") =>
                /\ storage' = storage
                /\ NoLaterWrite(w) =>
                      read(Leader, request[w].key)' =
                          [status |-> "200", value |-> request[w].value] ]_vars

C7_Witness ==
    \E w \in Writes :
        /\ response[w].status = "quorum_unmet" /\ NoLaterWrite(w)
        /\ read(Leader, request[w].key).value = request[w].value

\* C8: a success response carries the warning exactly when the synchronous
\* attempt of that write failed, and the warning lists the failed primary.
C8_WarningIffSyncFailed ==
    \A w \in Writes :
        response[w].status = "success" =>
            /\ response[w].warning <=> SyncAttemptFailed(w)
            /\ response[w].warning <=> ~sync_success[w]
            /\ response[w].warning =>
                  \E i \in DOMAIN response[w].failed_sync_followers :
                      response[w].failed_sync_followers[i] = PeerOf(SyncSlot)
            /\ ~response[w].warning => response[w].failed_sync_followers = <<>>

C8_Witness ==
    \E w, u \in Writes :
        /\ response[w].status = "success" /\ response[w].warning
        /\ response[u].status = "success" /\ ~response[u].warning

\* C9: no attempt ever ends with an exception, whatever the peer and the network
\* do, and a leader write with a failed attempt ends in success or quorum-unmet.
C9_PeerFailureIsFalse ==
    \A w \in Writes :
        /\ \A s \in AllSlots : tasks[w][s] \in {"none", "pending", "true", "false"}
        /\ pc[w] = "done" /\ (\E s \in Slots : tasks[w][s] = "false")
              => response[w].status \in {"success", "quorum_unmet"}

C9_Witness ==
    \E w \in Writes :
        /\ pc[w] = "done" /\ request[w].node = Leader
        /\ \E s \in AsyncSlots : tasks[w][s] = "false"
        /\ response[w].status \in {"success", "quorum_unmet"}

\* C10: a write received by a non-leader node is answered role-mismatch, launches
\* no replicate attempt, and its value reaches no storage.
C10_NonLeaderWriteRejected ==
    \A w \in Writes :
        request[w].node \in Nodes /\ ~IS_LEADER(request[w].node) =>
            /\ response[w].status = "role_mismatch"
            /\ pc[w] = "done"
            /\ \A s \in AllSlots : tasks[w][s] = "none"
            /\ \A n \in Nodes, k \in Keys : storage[n][k] # request[w].value

C10_Witness ==
    \E w, u \in Writes :
        /\ request[w].node \in Followers /\ response[w].status = "role_mismatch"
        /\ Committed(u) /\ u < w /\ request[u].key = request[w].key

\* C11: a POST /replicate received by the leader is answered 403 and changes no
\* storage; received by a non-leader it is answered 200 and sets storage[key] to
\* the value whatever the node held, leaving every other entry as it was.
C11_IntakeByRole ==
    [][ \A n \in Nodes, k \in Keys, v \in Values :
            replicate_request(n, k, v) =>
                IF IS_LEADER(n)
                THEN intake_response' = 403 /\ storage' = storage
                ELSE /\ intake_response' = 200
                     /\ storage'[n][k] = v
                     /\ \A m \in Nodes, j \in Keys :
                           <<m, j>> # <<n, k>> => storage'[m][j] = storage[m][j] ]_vars

C11_Witness ==
    /\ intake_response = 403
    /\ \E k \in Keys : storage[Leader][k] # None
    /\ \E n \in Followers, k \in Keys : storage[n][k] # None

\* C12: a follower's storage changes only by a replicate attempt of some write,
\* which leaves it holding that write's value whatever it held before; every
\* acknowledged attempt has done so.  So two writes to one key delivered out of
\* order leave the follower with the older value after all attempts completed.
C12_LastDeliveryWins ==
    [][ /\ \A w \in Writes, s \in Slots :
              tasks[w][s] = "pending" /\ tasks'[w][s] = "true" =>
                  storage'[PeerOf(s)][request[w].key] = request[w].value
        /\ \A f \in Followers, k \in Keys :
              storage'[f][k] # storage[f][k] =>
                  \E w \in Writes, s \in Slots :
                      /\ tasks[w][s] = "pending" /\ tasks'[w][s] # "pending"
                      /\ PeerOf(s) = f /\ request[w].key = k
                      /\ storage'[f][k] = request[w].value ]_vars

C12_Witness ==
    \E w1, w2 \in Writes :
        /\ w1 < w2 /\ Committed(w1) /\ Committed(w2)
        /\ request[w1].key = request[w2].key
        /\ \A w \in Writes, s \in AllSlots : tasks[w][s] # "pending"
        /\ pc[w1] = "done" /\ pc[w2] = "done"
        /\ storage[Leader][request[w2].key] = request[w2].value
        /\ \E s \in Slots :
              /\ tasks[w1][s] = "true" /\ tasks[w2][s] = "true"
              /\ storage[PeerOf(s)][request[w1].key] = request[w1].value

\* C15: for every content of the stores and every (k, v), handling the same
\* POST /replicate twice leaves what handling it once leaves.
C15_IntakeIdempotent ==
    \A n \in Nodes, k \in Keys, v \in Values :
        LET once == replicate(storage, n, k, v)
            twice == replicate(once.storage, n, k, v)
        IN /\ twice.storage = once.storage
           /\ twice.status_code = once.status_code
           /\ ~IS_LEADER(n) => once.storage[n][k] = v

C15_Witness ==
    /\ intake_response = 200
    /\ \E n \in Followers, k \in Keys, v \in Values :
          /\ storage[n][k] = v
          /\ replicate(storage, n, k, v).storage = storage

\* C13: an attempt still outstanding when its write has returned is not
\* cancelled: it runs to completion.  Again and again (and, a completed attempt
\* staying completed, from some point on) no returned write has a pending attempt.
C13_OutstandingAttemptsComplete ==
    []<>(\A w \in Writes, s \in AllSlots : pc[w] = "done" => tasks[w][s] # "pending")

\* the client has its success response while an async follower has yet to apply
C13_Witness ==
    \E w \in Writes, s \in AsyncSlots :
        /\ response[w].status = "success"
        /\ sync_success[w] /\ confirmations[w] = WRITE_QUORUM - 1
        /\ tasks[w][s] = "pending"
        /\ storage[PeerOf(s)][request[w].key] # request[w].value

\* C14 (liveness part): every write that has been received ends with a response,
\* whatever the other writes and the peers do.
C14_EveryWriteReturns ==
    []<>(\A w \in Writes : pc[w] # "new" => response[w].status # "none")

\* C14: the response that ends a write accepted by the leader is a verdict of
\* the coordinator: success or quorum-unmet.
C14_LeaderWriteEndsInVerdict ==
    \A w \in Writes :
        Committed(w) /\ pc[w] = "done" =>
            response[w].status \in {"success", "quorum_unmet"}

\* C16: with no follower configured, every write on the leader succeeds whatever
\* WRITE_QUORUM is.
C16_NoFollowersWriteSucceeds ==
    \A w \in Writes :
        SYNC_FOLLOWERS = <<>> /\ ASYNC_FOLLOWERS = <<>> /\ Committed(w) =>
            response[w].status = "success"

\* C17: the failed primary is in failed_sync_followers when the synchronous attempt
\* failed, the list is empty when it succeeded, and it never names a synchronous
\* peer to which no attempt was made for that write.
C17_FailedPeersWereAttempted ==
    \A w \in Writes :
        response[w].status \in {"success", "quorum_unmet"} =>
            LET failed == response[w].failed_sync_followers IN
            /\ SyncAttemptFailed(w) => \E i \in DOMAIN failed : failed[i] = PeerOf(SyncSlot)
            /\ ~SyncAttemptFailed(w) => failed = <<>>
            /\ \A i \in DOMAIN failed :
                  \E s \in Slots : tasks[w][s] # "none" /\ PeerOf(s) = failed[i]

\* the members of the sync tier after the first that are in no async tier
SyncReserve ==
    IF Len(SYNC_FOLLOWERS) < 2 THEN {}
    ELSE { SYNC_FOLLOWERS[i] : i \in 2..Len(SYNC_FOLLOWERS) }
            \ ({ ASYNC_FOLLOWERS[i] : i \in DOMAIN ASYNC_FOLLOWERS }
                   \cup {SYNC_FOLLOWERS[1]})

\* C18: the one synchronous attempt of a write goes to the first member of the
\* sync tier; no other member receives anything, also after the first one failed.
C18_OnlyFirstSyncPeerAttempted ==
    \A w \in Writes :
        /\ tasks[w][SyncSlot] # "none" => PeerOf(SyncSlot) = Head(SYNC_FOLLOWERS)
        /\ \A f \in SyncReserve, k \in Keys : storage[f][k] = None
        /\ \A s \in Slots : tasks[w][s] # "none" => PeerOf(s) \notin SyncReserve

C18_Witness ==
    \E w \in Writes :
        /\ Len(SYNC_FOLLOWERS) >= 2
        /\ pc[w] = "done" /\ SyncAttemptFailed(w)
        /\ \A s \in Slots : tasks[w][s] # "pending"

\* C19: an attempt of a write exists only after its local commit, an async
\* attempt only after its synchronous attempt has completed, and whatever a
\* follower holds was committed on the leader by some write.
C19_StagesInOrder ==
    /\ \A w \in Writes :
          /\ tasks[w][SyncSlot] # "none" =>
                /\ Committed(w)
                /\ NoLaterWrite(w) => storage[Leader][request[w].key] = request[w].value
          /\ (\E s \in AsyncSlots : tasks[w][s] # "none") =>
                tasks[w][SyncSlot] \in {"true", "false"}
    /\ \A f \in Followers, k \in Keys :
          storage[f][k] # None =>
              \E w \in Writes :
                  /\ Committed(w) /\ request[w].key = k
                  /\ request[w].value = storage[f][k]

C19_Witness ==
    \E w \in Writes, s \in AsyncSlots :
        /\ tasks[w][s] = "true"
        /\ storage[PeerOf(s)][request[w].key] = request[w].value
        /\ storage[PeerOf(SyncSlot)][request[w].key] = request[w].value

\* C20: every attempt is launched at most once: a task goes from not launched to
\* pending to its result and stays there, also after a failed attempt, and no
\* task is launched once the write has returned.
C20_NoRetry ==
    [][ \A w \in Writes, s \in AllSlots :
            /\ tasks[w][s] \in {"true", "false"} => tasks'[w][s] = tasks[w][s]
            /\ tasks[w][s] = "pending" => tasks'[w][s] # "none"
            /\ pc[w] = "done" /\ tasks[w][s] = "none" => tasks'[w][s] = "none"
            /\ tasks'[w][s] # "none" => s \in Slots ]_vars

C20_Witness ==
    \E w \in Writes :
        /\ response[w].status = "quorum_unmet"
        /\ tasks[w][SyncSlot] = "false"
        /\ \E s \in AsyncSlots : tasks[w][s] = "false"
        /\ \A s \in AllSlots : tasks[w][s] # "pending"

====
